---------------------------- MODULE Spec2Model ----------------------------
(***************************************************************************)
(* A model of click-option-group's declarative registration engine        *)
(* (click_option_group/_decorators.py): the optgroup.option and            *)
(* optgroup.group decorators, the not-attached placeholder option, and the *)
(* finished command as the tests exercise it.                              *)
(*                                                                         *)
(* Decorators fire bottom-up: the decorator nearest the function first.    *)
(* `decorators[cb]` records them in firing order, so the visible decorator *)
(* list read top to bottom is Reverse(decorators[cb]).                     *)
(***************************************************************************)
EXTENDS Integers, Sequences, FiniteSets, TLC

(* ------------------------------ bounds -------------------------------- *)

\* Decorators applied in one run, over all callbacks together.
MaxDecorators == 4

(* ------------------------------ inputs -------------------------------- *)

\* Two command callbacks: a top-level command and a subcommand.
Callbacks == {"cli", "command"}

\* Declarations of foreign (click.option) options.
ForeignDecls == {"--hello", "--lol"}

\* Declarations of grouped (optgroup.option) options, registration engine.
GroupedDecls == {"--foo", "--bar"}

\* Declarations of grouped options, constraint policies.
PolicyDecls == {"--foo", "--bar", "--spam"}

\* The options given a value on the command line, registration engine: none,
\* or --foo (runner.invoke(cli, []) and runner.invoke(cli, ['--foo', 'foo'])).
EngineArgs == {{}, {"--foo"}}

\* Group names; "" is the nameless group (name=None).
GroupNames == {"", "Group 1"}

\* The OptionGroup object a definition holds and calls .option on.
HeldGroups == {"Group 1"}

\* The option group classes (subclasses of OptionGroup, and OptionGroup).
GroupClasses ==
    {"OptionGroup", "RequiredAnyOptionGroup", "RequiredAllOptionGroup",
     "MutuallyExclusiveOptionGroup", "RequiredMutuallyExclusiveOptionGroup"}

(* ------------------------------ helpers ------------------------------- *)

Last(s) == s[Len(s)]

Reverse(s) == [i \in 1..Len(s) |-> s[Len(s) + 1 - i]]

Range(s) == {s[i] : i \in 1..Len(s)}

\* The entry read with d[key] and left in the dictionary.
DictPop_Keep(d, k) == d

\* pop(callback) emptying the dictionary for every callback.
DictPop_Clear(d, k) == <<>>

\* dict.pop(key): the mapping without the key.
DictPop(d, k) == [c \in DOMAIN d \ {k} |-> d[c]]

\* d[key] = value
DictSet(d, k, v) == [c \in DOMAIN d \cup {k} |-> IF c = k THEN v ELSE d[c]]

\* defaultdict(list).__getitem__: the value, or the empty list it creates.
DictGet(d, k) == IF k \in DOMAIN d THEN d[k] ELSE <<>>

(* ------------------------------- state -------------------------------- *)

VARIABLES
    params,                \* cb -> the callback's __click_params__, in firing order
    decorating_state,      \* _OptGroup._decorating_state: cb -> list of OptionStackItem
    not_attached_options,  \* _OptGroup._not_attached_options: cb -> list of placeholders
    groups,                \* the OptionGroup objects built, in construction order
    stage,                 \* cb -> "decorating" | "failed" | "command"
    raised,                \* cb -> the exception a decorator raised on cb (or NoError)
    warnings,              \* the warnings emitted, in order
    command_params,        \* cb -> Command.params of the finished command
    result,                \* the latest exercise of a finished command and its outcome
    decorators             \* cb -> the decorators applied to cb, in firing order

vars == <<params, decorating_state, not_attached_options, groups, stage, raised,
          warnings, command_params, result, decorators>>

NoError == [type |-> "none", msg |-> "", decls |-> <<>>, command |-> ""]

\* command: the command exercised ("" before the first exercise); again: the
\* exercise before this one was of the same command.
NoRun == [command |-> "", kind |-> "", present |-> {}, again |-> FALSE,
          error |-> NoError]

\* A parameter registered on a callback.  kind: "option" (foreign click.Option),
\* "not_attached" (_NotAttachedOption placeholder) or "grouped" (GroupedOption);
\* group: index into `groups` of the owning group, 0 for none.
Param(kind, decl, group, required) ==
    [kind |-> kind, decls |-> decl, group |-> group, required |-> required]

\* The pending entry recorded without the option's attributes.
OptionStackItem_NoAttrs(param_decls, attrs, param_count) ==
    [param_decls |-> param_decls, attrs |-> [required |-> FALSE],
     param_count |-> param_count]

OptionStackItem(param_decls, attrs, param_count) ==
    [param_decls |-> param_decls, attrs |-> attrs, param_count |-> param_count]

TotalDecorators ==
    Len(decorators["cli"]) + Len(decorators["command"])

\* Declarations already used on the callback (a declaration names one option).
DeclaredOn(cb) ==
    {decorators[cb][i].decl : i \in 1..Len(decorators[cb])}

Init ==
    /\ params = [cb \in Callbacks |-> <<>>]
    /\ decorating_state = <<>>
    /\ not_attached_options = <<>>
    /\ groups = <<>>
    /\ stage = [cb \in Callbacks |-> "decorating"]
    /\ raised = [cb \in Callbacks |-> NoError]
    /\ warnings = <<>>
    /\ command_params = [cb \in Callbacks |-> <<>>]
    /\ result = NoRun
    /\ decorators = [cb \in Callbacks |-> <<>>]

(* ----------------------- errors and warnings -------------------------- *)

\* raise_mixing_decorators_error(wrong_option, callback):
\* "Check decorator position for [<decls>] option in '<command>'."
MixingDecoratorsError(wrong_option, cb) ==
    [type |-> "TypeError", msg |-> "Check decorator position",
     decls |-> <<wrong_option.decls>>, command |-> cb]

\* The category of the empty-group warning.
EmptyGroupWarningCategory == "UserWarning"

\* warnings.warn(f'The empty option group{with_name} was found. ...', category)
EmptyGroupWarning(name) ==
    [category |-> EmptyGroupWarningCategory,
     text |-> "The empty option group",
     with_name |-> name]

(* ------------------------- _OptGroup helpers -------------------------- *)

\* _filter_not_attached letting the placeholders through.
filter_not_attached_Identity(options) == options

\* _OptGroup._filter_not_attached
filter_not_attached(options) ==
    SelectSeq(options, LAMBDA opt : opt.kind # "not_attached")

\* _check_mixing_decorators with the comparison off by one.
check_mixing_decorators_OffByOne(options_stack, ps) ==
    /\ options_stack # <<>>
    /\ Len(ps) > Last(options_stack).param_count + 1

\* _OptGroup._check_mixing_decorators: TRUE when it raises.
check_mixing_decorators(options_stack, ps) ==
    /\ options_stack # <<>>
    /\ Len(ps) > Last(options_stack).param_count

\* _check_mixing_decorators reporting params[0].
wrong_option_First(ps) == Head(ps)

\* The parameter _check_mixing_decorators reports: params[-1].
wrong_option(ps) == Last(ps)

\* The attachment loop running over reversed(option_stack).
attach_order_Reversed(option_stack) == Reverse(option_stack)

\* The attachment loop skipping the first pending entry.
attach_order_SkipFirst(option_stack) == Tail(option_stack)

\* `for item in option_stack` of the group decorator: the order of attachment.
attach_order(option_stack) == option_stack

\* The group decorator without its emptiness test.
no_pending_options_Never(cb) == FALSE

\* The emptiness test asking whether the whole dict is empty (`not
\* self._decorating_state`) instead of whether it holds this callback.
no_pending_options_AnyCallback(cb) == DOMAIN decorating_state = {}

\* `callback not in self._decorating_state` of the group decorator.
no_pending_options(cb) == cb \notin DOMAIN decorating_state

\* The error listing the placeholders of every callback.
error_hint_options_AllCallbacks(cb) ==
    Reverse(DictGet(not_attached_options, "cli")
            \o DictGet(not_attached_options, "command"))

\* The error listing the placeholders without reversed().
error_hint_options_Unreversed(cb) == DictGet(not_attached_options, cb)

\* `reversed(self._all_not_attached_options[ctx.command.callback])` of
\* _NotAttachedOption._raise_error: the placeholders whose declarations the
\* error lists, in the order it lists them.
error_hint_options(cb) == Reverse(DictGet(not_attached_options, cb))

\* _NotAttachedOption._raise_error
MissingGroupError(cb) ==
    [type |-> "TypeError", msg |-> "Missing option group decorator",
     decls |-> [i \in 1..Len(error_hint_options(cb)) |-> error_hint_options(cb)[i].decls],
     command |-> cb]

(* ---------------- OptionGroup (click_option_group/_core.py) ----------- *)

\* issubclass(cls, OptionGroup)
IsOptionGroupClass(cls) == cls \in GroupClasses

\* OptionGroup.forbidden_option_attrs: 'required' for the four constraint
\* classes, nothing for OptionGroup.
RequiredForbidden(cls) == cls # "OptionGroup"

\* Index of the first pending item OptionGroup.option rejects (a forbidden
\* attribute), or Len + 1 when it accepts them all.
FirstRejected(cls, items) ==
    LET bad == {i \in 1..Len(items) :
                    items[i].attrs.required /\ RequiredForbidden(cls)}
    IN  IF bad = {} THEN Len(items) + 1
        ELSE CHOOSE i \in bad : \A j \in bad : i <= j

\* "'required' attribute is not allowed for '<cls>' options."
ForbiddenAttrError(cls, item, cb) ==
    [type |-> "TypeError", msg |-> "'required' attribute is not allowed",
     decls |-> <<item.param_decls>>, command |-> cb, cls |-> cls]

\* The group's member options in declaration order: the group keeps them in
\* the order of attachment and renders them reversed, as click reverses
\* the parameters decorators registered.
get_option_names(group) == Reverse(group.options)

\* OptionGroup.get_default_name: the name, or "(a|b|...)" for a nameless
\* group; the model keeps the joined names as a sequence.
get_default_name(group) ==
    IF group.name # "" THEN <<group.name>> ELSE get_option_names(group)

UsageError(msg, decls, cb) ==
    [type |-> "UsageError", msg |-> msg, decls |-> decls, command |-> cb]

\* The members of the group with (given = TRUE) or without a value among
\* `present`, in declaration order.
Members(group, present, given) ==
    SelectSeq(get_option_names(group), LAMBDA d : (d \in present) = given)

\* <policy>.handle_parse_result: the usage error the group's validation
\* raises for the options present on the command line, or NoError.
validate(group, present) ==
    LET given   == Members(group, present, TRUE)
        missing == Members(group, present, FALSE)
        all     == get_option_names(group)
        cb      == group.callback
        exclusive == UsageError("The given mutually exclusive options cannot be used at the same time",
                                given, cb)
    IN  CASE group.cls = "RequiredAnyOptionGroup" ->
                IF given = <<>>
                THEN UsageError("Missing one of the required options", all, cb)
                ELSE NoError
          [] group.cls = "RequiredAllOptionGroup" ->
                IF missing # <<>>
                THEN UsageError("Missing required options from", missing, cb)
                ELSE NoError
          [] group.cls = "MutuallyExclusiveOptionGroup" ->
                IF Len(given) > 1 THEN exclusive ELSE NoError
          [] group.cls = "RequiredMutuallyExclusiveOptionGroup" ->
                IF Len(given) > 1 THEN exclusive
                ELSE IF given = <<>>
                THEN UsageError("Missing one of the required mutually exclusive options", all, cb)
                ELSE NoError
          [] OTHER -> NoError

(* ------------------------------ actions ------------------------------- *)

Decorator(op, decl, name, cls, required) ==
    [op |-> op, decl |-> decl, name |-> name, cls |-> cls, required |-> required]

CanDecorate(cb) ==
    /\ stage[cb] = "decorating"
    /\ TotalDecorators < MaxDecorators

Log(cb, d) ==
    decorators' = [decorators EXCEPT ![cb] = Append(@, d)]

Raise(cb, err) ==
    /\ raised' = [raised EXCEPT ![cb] = err]
    /\ stage' = [stage EXCEPT ![cb] = "failed"]

\* @click.option(decl): a foreign option registered on the callback.
ClickOption(cb, decl) ==
    /\ CanDecorate(cb)
    /\ decl \notin DeclaredOn(cb)
    /\ params' = [params EXCEPT ![cb] = Append(@, Param("option", decl, 0, FALSE))]
    /\ Log(cb, Decorator("click.option", decl, "", "", FALSE))
    /\ UNCHANGED <<decorating_state, not_attached_options, groups, stage, raised,
                   warnings, command_params, result>>

\* The option decorator registering its placeholder before it runs
\* _check_mixing_decorators (lines 145 and 146 exchanged).
OptgroupOption_RegisterFirst(cb, decl, required) ==
    LET option_stack == DictGet(decorating_state, cb)
        ps           == filter_not_attached(params[cb])
        placeholder  == Param("not_attached", decl, 0, FALSE)
    IN  /\ CanDecorate(cb)
        /\ decl \notin DeclaredOn(cb)
        /\ Log(cb, Decorator("optgroup.option", decl, "", "", required))
        /\ params' = [params EXCEPT ![cb] = Append(@, placeholder)]
        /\ not_attached_options' =
               DictSet(not_attached_options, cb,
                       Append(DictGet(not_attached_options, cb), placeholder))
        /\ IF check_mixing_decorators(option_stack, ps)
           THEN /\ Raise(cb, MixingDecoratorsError(wrong_option(ps), cb))
                /\ decorating_state' = DictSet(decorating_state, cb, option_stack)
           ELSE /\ decorating_state' =
                       DictSet(decorating_state, cb,
                               Append(option_stack,
                                      OptionStackItem(decl, [required |-> required], Len(ps))))
                /\ UNCHANGED <<raised, stage>>
        /\ UNCHANGED <<groups, warnings, command_params, result>>

\* @optgroup.option(decl, required=required).  The placeholder's own name is a
\* fake one; its `decls` field holds option_decls.
OptgroupOption(cb, decl, required) ==
    LET option_stack == DictGet(decorating_state, cb)
        ps           == filter_not_attached(params[cb])
        placeholder  == Param("not_attached", decl, 0, FALSE)
    IN  /\ CanDecorate(cb)
        /\ decl \notin DeclaredOn(cb)
        /\ Log(cb, Decorator("optgroup.option", decl, "", "", required))
        /\ IF check_mixing_decorators(option_stack, ps)
           THEN /\ Raise(cb, MixingDecoratorsError(wrong_option(ps), cb))
                /\ decorating_state' = DictSet(decorating_state, cb, option_stack)
                /\ UNCHANGED <<params, not_attached_options>>
           ELSE /\ params' = [params EXCEPT ![cb] = Append(@, placeholder)]
                /\ not_attached_options' =
                       DictSet(not_attached_options, cb,
                               Append(DictGet(not_attached_options, cb), placeholder))
                /\ decorating_state' =
                       DictSet(decorating_state, cb,
                               Append(option_stack,
                                      OptionStackItem(decl, [required |-> required], Len(ps))))
                /\ UNCHANGED <<raised, stage>>
        /\ UNCHANGED <<groups, warnings, command_params, result>>

\* The group decorator on a callback with pending options: lines 109-125.
GroupWithPending(cb, name, cls, oops) ==
    LET option_stack == DictGet(decorating_state, cb)
        removed      == Range(DictGet(not_attached_options, cb))
        params1      == SelectSeq(params[cb], LAMBDA opt : opt \notin removed)
        ps           == filter_not_attached(params1)
        items        == attach_order(option_stack)
        k            == FirstRejected(cls, items)
        gid          == Len(groups) + 1
        attached     == SubSeq(items, 1, k - 1)
        new_params   == [i \in 1..Len(attached) |->
                            Param("grouped", attached[i].param_decls, gid,
                                  attached[i].attrs.required)]
        option_group == [name |-> name, cls |-> cls, callback |-> cb,
                         options |-> [i \in 1..Len(attached) |-> attached[i].param_decls]]
    IN  /\ decorating_state' = DictPop(decorating_state, cb)
        /\ not_attached_options' = DictPop(not_attached_options, cb)
        /\ IF check_mixing_decorators(option_stack, ps)
           THEN /\ Raise(cb, MixingDecoratorsError(wrong_option(ps), cb))
                /\ params' = [params EXCEPT ![cb] = params1]
                /\ UNCHANGED groups
           ELSE IF oops
           THEN /\ Raise(cb, [type |-> "TypeError",
                              msg |-> "constructor got an unexpected keyword argument",
                              decls |-> <<>>, command |-> cb])
                /\ params' = [params EXCEPT ![cb] = params1]
                /\ UNCHANGED groups
           ELSE /\ groups' = Append(groups, option_group)
                /\ params' = [params EXCEPT ![cb] = params1 \o new_params]
                /\ IF k <= Len(items)
                   THEN Raise(cb, ForbiddenAttrError(cls, items[k], cb))
                   ELSE UNCHANGED <<raised, stage>>
        /\ UNCHANGED warnings

\* @optgroup.group(name, cls=cls, **attrs) / @optgroup(name, ...); oops: attrs
\* holds a keyword the group constructor does not take.
OptgroupGroup(cb, name, cls, oops) ==
    /\ CanDecorate(cb)
    /\ Log(cb, Decorator("optgroup.group", "", name, cls, FALSE) @@ [oops |-> oops])
    /\ IF ~IsOptionGroupClass(cls)
       THEN /\ Raise(cb, [type |-> "TypeError",
                          msg |-> "'cls' must be a subclass of 'OptionGroup' class.",
                          decls |-> <<>>, command |-> cb])
            /\ UNCHANGED <<params, decorating_state, not_attached_options, groups,
                           warnings>>
       ELSE IF no_pending_options(cb)
       THEN /\ warnings' = Append(warnings, EmptyGroupWarning(name))
            /\ UNCHANGED <<params, decorating_state, not_attached_options, groups,
                           stage, raised>>
       ELSE GroupWithPending(cb, name, cls, oops)
    /\ UNCHANGED <<command_params, result>>

\* OptionGroup.option with its position check left out.
group_check_mixing_decorators_Never(options, ps) == FALSE

\* The position check of OptionGroup.option (click_option_group/_core.py):
\* TRUE when it raises.  The group already has options on this callback and
\* the parameter registered last is none of them.
group_check_mixing_decorators(options, ps) ==
    /\ options # <<>>
    /\ ps # <<>>
    /\ ~(Last(ps).kind = "grouped" /\ Last(ps).decls \in Range(options))

\* The index in `groups` of the options held group g has on callback cb
\* (OptionGroup keeps its options per callback), 0 when it has none yet.
HeldIndex(g, cb) ==
    LET s == {i \in 1..Len(groups) : groups[i].name = g /\ groups[i].callback = cb}
    IN  IF s = {} THEN 0 ELSE CHOOSE i \in s : TRUE

\* @group.option(decl) on the held OptionGroup object named g.
GroupOption(cb, g, decl) ==
    LET gid0    == HeldIndex(g, cb)
        options == IF gid0 = 0 THEN <<>> ELSE groups[gid0].options
        gid     == IF gid0 = 0 THEN Len(groups) + 1 ELSE gid0
        fresh   == [name |-> g, cls |-> "OptionGroup", callback |-> cb,
                    options |-> <<decl>>]
    IN  /\ CanDecorate(cb)
        /\ decl \notin DeclaredOn(cb)
        /\ Log(cb, Decorator("group.option", decl, g, "OptionGroup", FALSE))
        /\ IF group_check_mixing_decorators(options, params[cb])
           THEN /\ Raise(cb, MixingDecoratorsError(Last(params[cb]), cb))
                /\ UNCHANGED <<params, groups>>
           ELSE /\ params' = [params EXCEPT ![cb] =
                                 Append(@, Param("grouped", decl, gid, FALSE))]
                /\ groups' = IF gid0 = 0 THEN Append(groups, fresh)
                             ELSE [groups EXCEPT ![gid].options = Append(@, decl)]
                /\ UNCHANGED <<raised, stage>>
        /\ UNCHANGED <<decorating_state, not_attached_options, warnings,
                       command_params, result>>

\* @click.command() / @group.command(): the command takes the parameters the
\* decorators registered, reversed.
Finalize(cb) ==
    /\ stage[cb] = "decorating"
    /\ stage' = [stage EXCEPT ![cb] = "command"]
    /\ command_params' = [command_params EXCEPT ![cb] = Reverse(params[cb])]
    /\ UNCHANGED <<params, decorating_state, not_attached_options, groups, raised,
                   warnings, result, decorators>>

\* The placeholder overriding get_help_record only.
ParamError_HelpOnly(cb, p, kind, present) ==
    IF p.kind = "not_attached" /\ kind = "help" THEN MissingGroupError(cb)
    ELSE IF p.kind = "grouped" /\ kind = "invoke" THEN validate(groups[p.group], present)
    ELSE NoError

\* What processing parameter p raises: a placeholder raises the missing-group
\* error (handle_parse_result, get_help_record); on an invocation a grouped
\* option runs its group's validation.
ParamError(cb, p, kind, present) ==
    IF p.kind = "not_attached" THEN MissingGroupError(cb)
    ELSE IF p.kind = "grouped" /\ kind = "invoke" THEN validate(groups[p.group], present)
    ELSE NoError

\* The error of the first parameter that raises, in the command's order.
ExerciseError(cb, kind, present) ==
    LET ps  == command_params[cb]
        bad == {i \in 1..Len(ps) : ParamError(cb, ps[i], kind, present) # NoError}
    IN  IF bad = {} THEN NoError
        ELSE ParamError(cb, ps[CHOOSE i \in bad : \A j \in bad : i <= j], kind, present)

\* Commands run once the definitions are complete: no callback is part-way
\* through its decorators.
Exercise(cb, kind, present) ==
    /\ stage[cb] = "command"
    /\ \A c \in Callbacks : stage[c] = "decorating" => decorators[c] = <<>>
    /\ result' = [command |-> cb, kind |-> kind, present |-> present,
                  again |-> (result.command = cb),
                  error |-> ExerciseError(cb, kind, present)]
    /\ not_attached_options' =
           IF \E i \in 1..Len(command_params[cb]) :
                  command_params[cb][i].kind = "not_attached"
           THEN DictSet(not_attached_options, cb, DictGet(not_attached_options, cb))
           ELSE not_attached_options
    /\ UNCHANGED <<params, decorating_state, groups, stage, raised, warnings,
                   command_params, decorators>>

\* runner.invoke(cli, ['--help'])
Help(cb) == Exercise(cb, "help", {})

\* runner.invoke(cli, args): `present` are the options given a value.
Invoke(cb, present) == Exercise(cb, "invoke", present)

(* --------------------------- specifications --------------------------- *)

\* The registration engine: two callbacks, foreign and grouped options,
\* groups of the default class.
Next ==
    \/ \E cb \in Callbacks, decl \in ForeignDecls : ClickOption(cb, decl)
    \/ \E cb \in Callbacks, decl \in GroupedDecls : OptgroupOption(cb, decl, FALSE)
    \/ \E cb \in Callbacks, name \in GroupNames :
           OptgroupGroup(cb, name, "OptionGroup", FALSE)
    \/ \E cb \in Callbacks : Finalize(cb)
    \/ \E cb \in Callbacks : Help(cb)
    \/ \E cb \in Callbacks, present \in EngineArgs : Invoke(cb, present)

Spec == Init /\ [][Next]_vars

\* The constraint policies: one command, grouped options only, a group of any
\* class.
NextPolicy ==
    \/ \E decl \in PolicyDecls : OptgroupOption("cli", decl, FALSE)
    \/ \E cls \in GroupClasses : OptgroupGroup("cli", "", cls, FALSE)
    \/ Finalize("cli")
    \/ Help("cli")
    \/ \E present \in SUBSET PolicyDecls : Invoke("cli", present)

SpecPolicy == Init /\ [][NextPolicy]_vars

\* Definition-time errors: one command, a foreign option, options with and
\* without required=True, a group of any class or of a class that is no
\* OptionGroup, or a group given a keyword its constructor does not take.
NextAttrs ==
    \/ ClickOption("cli", "--hello")
    \/ \E decl \in GroupedDecls, required \in BOOLEAN :
           OptgroupOption("cli", decl, required)
    \/ \E cls \in GroupClasses \cup {"object"} : OptgroupGroup("cli", "", cls, FALSE)
    \/ OptgroupGroup("cli", "", "OptionGroup", TRUE)
    \/ Finalize("cli")
    \/ Help("cli")

SpecAttrs == Init /\ [][NextAttrs]_vars

\* The declaration phase alone: the decorators of the registration engine on
\* two callbacks, up to the point the command is made.
NextDecorating ==
    \/ \E cb \in Callbacks, decl \in ForeignDecls : ClickOption(cb, decl)
    \/ \E cb \in Callbacks, decl \in GroupedDecls : OptgroupOption(cb, decl, FALSE)
    \/ \E cb \in Callbacks, name \in GroupNames :
           OptgroupGroup(cb, name, "OptionGroup", FALSE)
    \/ \E cb \in Callbacks : Finalize(cb)

SpecDecorating == Init /\ [][NextDecorating]_vars

\* The imperative API: two callbacks, foreign options and the options of a
\* held group.
NextImperative ==
    \/ \E cb \in Callbacks, decl \in ForeignDecls : ClickOption(cb, decl)
    \/ \E cb \in Callbacks, g \in HeldGroups, decl \in GroupedDecls :
           GroupOption(cb, g, decl)
    \/ \E cb \in Callbacks : Finalize(cb)
    \/ \E cb \in Callbacks : Help(cb)
    \/ \E cb \in Callbacks, present \in EngineArgs : Invoke(cb, present)

SpecImperative == Init /\ [][NextImperative]_vars

(* ------------------- the decorator list, as written ------------------- *)

Indices(s) == [i \in 1..Len(s) |-> i]

IsOpt(d) == d.op = "optgroup.option"
IsGroup(d) == d.op = "optgroup.group"
IsForeign(d) == d.op = "click.option"

\* The position of the last group decorator fired on cb before position i
\* (0 when there is none).
PrevGroup(cb, i) ==
    LET s == {j \in 1..(i - 1) : j <= Len(decorators[cb]) /\ IsGroup(decorators[cb][j])}
    IN  IF s = {} THEN 0 ELSE CHOOSE j \in s : \A l \in s : l <= j

\* The declarations of the optgroup.option decorators fired on cb strictly
\* between positions lo and hi, in firing order.
OptionsBetween(cb, lo, hi) ==
    LET sel == SelectSeq(SubSeq(decorators[cb], lo + 1, hi - 1), IsOpt)
    IN  [i \in 1..Len(sel) |-> sel[i].decl]

\* The options pending when the decorator at position i fires.
PendingAt(cb, i) == OptionsBetween(cb, PrevGroup(cb, i), i)

\* The options of cb no group decorator has drained, in firing order.
Orphans(cb) == PendingAt(cb, Len(decorators[cb]) + 1)

\* The positions of the group decorators of cb that had pending options.
DrainingGroups(cb) ==
    SelectSeq(Indices(decorators[cb]),
              LAMBDA i : IsGroup(decorators[cb][i]) /\ PendingAt(cb, i) # <<>>)

\* The groups built on cb, in construction order.
GroupsOf(cb) == SelectSeq(groups, LAMBDA g : g.callback = cb)

IsMixingError(e) == e.type = "TypeError" /\ e.msg = "Check decorator position"

IsMissingGroupError(e) ==
    e.type = "TypeError" /\ e.msg = "Missing option group decorator"

\* On cb, i and k are optgroup.option decorators, k the next one after i, and
\* a foreign option was registered between them.
ForeignBetween(cb, i, k) ==
    /\ i < k
    /\ IsOpt(decorators[cb][i])
    /\ IsOpt(decorators[cb][k])
    /\ \A j \in (i + 1)..(k - 1) : ~IsOpt(decorators[cb][j])
    /\ \E j \in (i + 1)..(k - 1) : IsForeign(decorators[cb][j])

\* The foreign options registered between positions i and k.
ForeignDeclsBetween(cb, i, k) ==
    {decorators[cb][j].decl : j \in {l \in (i + 1)..(k - 1) : IsForeign(decorators[cb][l])}}

\* The latest foreign option registered before position k.
LastForeignBefore(cb, k) ==
    LET s == {j \in 1..(k - 1) : IsForeign(decorators[cb][j])}
    IN  decorators[cb][CHOOSE j \in s : \A l \in s : l <= j].decl

\* The decorator at position k of cb raised the mis-ordering error.
RaisedMixingAt(cb, k) ==
    /\ k = Len(decorators[cb])
    /\ stage[cb] = "failed"
    /\ IsMixingError(raised[cb])
    /\ raised[cb].command = cb

(* ------------------------------- claims ------------------------------- *)

\* C1 (as stated): whenever a foreign option is registered on a callback after
\* one optgroup.option decorator has fired and before the next one fires, that
\* next optgroup.option decorator raises the mis-ordering TypeError, naming a
\* foreign option registered between the two.
C1_AsStated ==
    \A cb \in Callbacks : \A i, k \in 1..Len(decorators[cb]) :
        ForeignBetween(cb, i, k) =>
            /\ RaisedMixingAt(cb, k)
            /\ raised[cb].decls[1] \in ForeignDeclsBetween(cb, i, k)

\* C1 (amended): whenever a foreign option is registered on a callback after
\* one optgroup.option decorator has fired and before the next one fires, and
\* no group decorator fires on that callback between the two, the next
\* optgroup.option decorator raises the mis-ordering TypeError for that
\* callback, naming the foreign option registered last before it.
C1_MixingBetweenOptions ==
    \A cb \in Callbacks : \A i, k \in 1..Len(decorators[cb]) :
        (ForeignBetween(cb, i, k) /\ PrevGroup(cb, k) < i) =>
            /\ RaisedMixingAt(cb, k)
            /\ raised[cb].decls = <<LastForeignBefore(cb, k)>>

\* C1 witness: on the subcommand, an optgroup.option decorator has raised the
\* mis-ordering error after a foreign option interleaved.
C1_Witness ==
    \E i \in 1..Len(decorators["command"]) :
        /\ ForeignBetween("command", i, Len(decorators["command"]))
        /\ PrevGroup("command", Len(decorators["command"])) < i
        /\ RaisedMixingAt("command", Len(decorators["command"]))

\* The command built from cb was finished with orphaned options.
HasOrphans(cb) == stage[cb] = "command" /\ Orphans(cb) # <<>>

\* C2: a command finished with a pending option no group decorator drained
\* raises the 'Missing option group decorator' TypeError on every exercise:
\* a help request, an invocation without and with arguments, the first
\* exercise and every later one.
C2_MissingGroupOnEveryExercise ==
    \A cb \in Callbacks :
        (result.command = cb /\ HasOrphans(cb)) =>
            /\ IsMissingGroupError(result.error)
            /\ result.error.command = cb

\* C2 witness: an invocation with arguments of a command with an orphaned
\* option, exercised right after an earlier exercise of the same command, has
\* raised the error.
C2_Witness ==
    /\ result.command = "cli"
    /\ HasOrphans("cli")
    /\ result.again
    /\ result.kind = "invoke"
    /\ result.present # {}
    /\ IsMissingGroupError(result.error)

\* The declarations a sequence of declarations lists, and each listed once.
ListsExactly(decls, set) ==
    /\ Range(decls) = set
    /\ Len(decls) = Cardinality(set)

\* The declarations of the options attached to a group on cb.
AttachedOn(cb) ==
    {params[cb][i].decls : i \in {j \in 1..Len(params[cb]) : params[cb][j].kind = "grouped"}}

\* C3: the 'Missing option group decorator' error raised for a command lists
\* exactly the options whose optgroup.option decorator fired on that command's
\* callback after its last group decorator (or since the start), each once:
\* no option attached to a group, and no orphan of another command.
C3_ListsExactlyTheOrphans ==
    IsMissingGroupError(result.error) =>
        /\ ListsExactly(result.error.decls, Range(Orphans(result.command)))
        /\ Range(result.error.decls) \cap AttachedOn(result.command) = {}

\* C3 witness: the error was raised for a command that has an attached option
\* and an orphan, while the other command has an orphan of another name.
C3_Witness ==
    /\ IsMissingGroupError(result.error)
    /\ result.command = "cli"
    /\ AttachedOn("cli") # {}
    /\ HasOrphans("command")
    /\ Range(Orphans("command")) # Range(Orphans("cli"))

\* C4 (as stated): the error lists the orphaned options in the order in which
\* their pending entries were registered on the callback's pending list.
C4_AsStated ==
    IsMissingGroupError(result.error) =>
        result.error.decls = Orphans(result.command)

\* C4 (amended): the error lists the orphaned options in the reverse of the
\* order in which their pending entries were registered, that is top to bottom
\* in the visible decorator list; the pending list itself, which the group
\* decorator attaches from, holds them in registration order.
C4_ListsInVisibleOrder ==
    /\ IsMissingGroupError(result.error) =>
           result.error.decls = Reverse(Orphans(result.command))
    /\ \A cb \in DOMAIN decorating_state :
           stage[cb] # "failed" =>
               [i \in 1..Len(decorating_state[cb]) |->
                    decorating_state[cb][i].param_decls] = Orphans(cb)

\* C4 witness: the error lists two orphaned options.
C4_Witness ==
    /\ IsMissingGroupError(result.error)
    /\ Len(result.error.decls) = 2

\* This step is a group decorator firing on cb, which has no pending options.
EmptyGroupStep(cb) ==
    /\ stage[cb] = "decorating"
    /\ Orphans(cb) = <<>>
    /\ Len(decorators'[cb]) = Len(decorators[cb]) + 1
    /\ IsGroup(Last(decorators'[cb]))

\* C5: a group decorator firing on a callback with no pending options changes
\* nothing: the parameter list of every callback, the groups built, the
\* pending stacks and the placeholder lists of every callback stay as they
\* were, and it raises nothing.
C5_EmptyGroupChangesNothing ==
    [][\A cb \in Callbacks :
           EmptyGroupStep(cb) =>
               /\ params' = params
               /\ groups' = groups
               /\ decorating_state' = decorating_state
               /\ not_attached_options' = not_attached_options
               /\ stage' = stage
               /\ raised' = raised
               /\ command_params' = command_params]_vars

\* C5 witness: a command was finished after a group decorator fired on its
\* callback with nothing pending, below a later decorator, while the other
\* callback had options pending.
C5_Witness ==
    /\ stage["cli"] = "command"
    /\ Len(decorators["cli"]) = 2
    /\ IsGroup(decorators["cli"][1])
    /\ Len(command_params["cli"]) = 1
    /\ GroupsOf("cli") = <<>>
    /\ "command" \in DOMAIN decorating_state

\* C6: every warning the group decorator emits for an empty group is a
\* RuntimeWarning whose text starts 'The empty option group'.
C6_WarningIsRuntimeWarning ==
    \A i \in 1..Len(warnings) :
        /\ warnings[i].category = "RuntimeWarning"
        /\ warnings[i].text = "The empty option group"

\* The members of group g in the finished command, in the command's order.
CommandMembers(cb, g) ==
    LET sel == SelectSeq(command_params[cb],
                         LAMBDA p : p.kind = "grouped" /\ groups[p.group] = g)
    IN  [i \in 1..Len(sel) |-> sel[i].decls]

\* C7: in a finished command, the members of each group built by the
\* optgroup decorators are ordered as their optgroup.option decorators are in
\* the visible decorator list read top to bottom: in the command's
\* parameters, in the group's own listing, and in its default name.
C7_MembersInVisibleOrder ==
    \A cb \in Callbacks :
        stage[cb] = "command" =>
            /\ Len(GroupsOf(cb)) = Len(DrainingGroups(cb))
            /\ \A k \in 1..Len(GroupsOf(cb)) :
                   LET g       == GroupsOf(cb)[k]
                       visible == Reverse(PendingAt(cb, DrainingGroups(cb)[k]))
                   IN  /\ CommandMembers(cb, g) = visible
                       /\ get_option_names(g) = visible
                       /\ g.name = "" => get_default_name(g) = visible

\* C7 witness: a finished command with a nameless group of two members.
C7_Witness ==
    \E cb \in Callbacks :
        /\ stage[cb] = "command"
        /\ \E k \in 1..Len(GroupsOf(cb)) :
               /\ GroupsOf(cb)[k].name = ""
               /\ Len(CommandMembers(cb, GroupsOf(cb)[k])) = 2

\* The options of cb a group decorator has drained.
DrainedOn(cb) ==
    {decorators[cb][i].decl : i \in {j \in 1..PrevGroup(cb, Len(decorators[cb]) + 1) :
                                         IsOpt(decorators[cb][j])}}

\* C8: on a callback whose decorators raised nothing, each group holds exactly
\* the options whose optgroup.option decorators fired after the previous group
\* decorator (or since the start) and before its own; every drained option is
\* a member of exactly one group and is registered once, as a grouped option
\* of that group.
C8_EachOptionInExactlyOneGroup ==
    \A cb \in Callbacks :
        stage[cb] # "failed" =>
            /\ Len(GroupsOf(cb)) = Len(DrainingGroups(cb))
            /\ \A k \in 1..Len(GroupsOf(cb)) :
                   ListsExactly(GroupsOf(cb)[k].options,
                                Range(PendingAt(cb, DrainingGroups(cb)[k])))
            /\ \A d \in DrainedOn(cb) :
                   /\ Cardinality({k \in 1..Len(GroupsOf(cb)) :
                                       d \in Range(GroupsOf(cb)[k].options)}) = 1
                   /\ Cardinality({i \in 1..Len(params[cb]) : params[cb][i].decls = d}) = 1
                   /\ \A i \in 1..Len(params[cb]) :
                          params[cb][i].decls = d =>
                              /\ params[cb][i].kind = "grouped"
                              /\ groups[params[cb][i].group].callback = cb
                              /\ d \in Range(groups[params[cb][i].group].options)

\* C8 witness: two group decorators on one callback have each drained an
\* option.
C8_Witness ==
    \E cb \in Callbacks :
        /\ stage[cb] # "failed"
        /\ Len(GroupsOf(cb)) = 2
        /\ Cardinality(DrainedOn(cb)) = 2

\* The finished command of cb has no orphans and one group, declared with
\* class cls.
SoleGroup(cb, cls) ==
    /\ stage[cb] = "command"
    /\ Orphans(cb) = <<>>
    /\ Len(DrainingGroups(cb)) = 1
    /\ decorators[cb][DrainingGroups(cb)[1]].cls = cls

\* The members of that group, top to bottom as declared.
DeclaredMembers(cb) == Reverse(PendingAt(cb, DrainingGroups(cb)[1]))

\* The latest exercise was an invocation of cb's command.
Invoked(cb) == result.command = cb /\ result.kind = "invoke"

\* C9: invoking a command with a RequiredAllOptionGroup group passes iff every
\* member of the group has a value; otherwise the usage error 'Missing
\* required options from' lists exactly the members without a value, in
\* declaration order.
C9_RequiredAll ==
    (Invoked("cli") /\ SoleGroup("cli", "RequiredAllOptionGroup")) =>
        LET absent == SelectSeq(DeclaredMembers("cli"),
                                LAMBDA d : d \notin result.present)
        IN  /\ (result.error = NoError) <=> (absent = <<>>)
            /\ result.error # NoError =>
                   /\ result.error.type = "UsageError"
                   /\ result.error.msg = "Missing required options from"
                   /\ result.error.decls = absent

\* C9 witness: a group of three members invoked with one of them given: the
\* error lists two.
C9_Witness ==
    /\ Invoked("cli")
    /\ SoleGroup("cli", "RequiredAllOptionGroup")
    /\ Len(DeclaredMembers("cli")) = 3
    /\ Cardinality(result.present) = 1
    /\ Len(result.error.decls) = 2

\* C10: invoking a command with a MutuallyExclusiveOptionGroup group passes
\* iff at most one member of the group has a value (none passes); otherwise
\* the usage error lists exactly the members with a value.
C10_MutuallyExclusive ==
    (Invoked("cli") /\ SoleGroup("cli", "MutuallyExclusiveOptionGroup")) =>
        LET given == Range(DeclaredMembers("cli")) \cap result.present
        IN  /\ (result.error = NoError) <=> (Cardinality(given) <= 1)
            /\ result.error # NoError =>
                   /\ result.error.type = "UsageError"
                   /\ result.error.msg =
                          "The given mutually exclusive options cannot be used at the same time"
                   /\ ListsExactly(result.error.decls, given)

\* C10 witness: a group of three members invoked with two of them given: the
\* error lists the two.
C10_Witness ==
    /\ Invoked("cli")
    /\ SoleGroup("cli", "MutuallyExclusiveOptionGroup")
    /\ Len(DeclaredMembers("cli")) = 3
    /\ Cardinality(result.present) = 2
    /\ Len(result.error.decls) = 2

\* C11: invoking a command with a RequiredMutuallyExclusiveOptionGroup group
\* passes iff exactly one member has a value; with none it fails with
\* 'Missing one of the required mutually exclusive options' listing all the
\* members; with two or more it fails with the mutually-exclusive error
\* listing exactly the members with a value.
C11_RequiredMutuallyExclusive ==
    (Invoked("cli") /\ SoleGroup("cli", "RequiredMutuallyExclusiveOptionGroup")) =>
        LET members == Range(DeclaredMembers("cli"))
            given   == members \cap result.present
        IN  /\ (result.error = NoError) <=> (Cardinality(given) = 1)
            /\ Cardinality(given) = 0 =>
                   /\ result.error.type = "UsageError"
                   /\ result.error.msg =
                          "Missing one of the required mutually exclusive options"
                   /\ ListsExactly(result.error.decls, members)
            /\ Cardinality(given) >= 2 =>
                   /\ result.error.type = "UsageError"
                   /\ result.error.msg =
                          "The given mutually exclusive options cannot be used at the same time"
                   /\ ListsExactly(result.error.decls, given)

\* C11 witness: a group of three members invoked with two of them given has
\* failed with the mutually-exclusive error.
C11_Witness ==
    /\ Invoked("cli")
    /\ SoleGroup("cli", "RequiredMutuallyExclusiveOptionGroup")
    /\ Len(DeclaredMembers("cli")) = 3
    /\ Cardinality(result.present) = 2
    /\ Len(result.error.decls) = 2

\* C12: invoking a command with a RequiredAnyOptionGroup group fails iff no
\* member has a value, and passes whenever one, several or all have; the
\* error 'Missing one of the required options' lists all the members.
C12_RequiredAny ==
    (Invoked("cli") /\ SoleGroup("cli", "RequiredAnyOptionGroup")) =>
        LET members == Range(DeclaredMembers("cli"))
            given   == members \cap result.present
        IN  /\ (result.error # NoError) <=> (given = {})
            /\ result.error # NoError =>
                   /\ result.error.type = "UsageError"
                   /\ result.error.msg = "Missing one of the required options"
                   /\ ListsExactly(result.error.decls, members)

\* C12 witness: a group of three members invoked with no member given has
\* failed, listing the three.
C12_Witness ==
    /\ Invoked("cli")
    /\ SoleGroup("cli", "RequiredAnyOptionGroup")
    /\ Len(DeclaredMembers("cli")) = 3
    /\ Len(result.error.decls) = 3

\* The four constraint classes of test_forbidden_option_attrs.
ConstraintClasses == GroupClasses \ {"OptionGroup"}

\* An option pending when position i of cb fires was declared required=True.
RequiredPendingAt(cb, i) ==
    \E j \in (PrevGroup(cb, i) + 1)..(i - 1) :
        IsOpt(decorators[cb][j]) /\ decorators[cb][j].required

\* A foreign option was registered on cb after an option pending at position
\* i and before position i.
ForeignWhilePending(cb, i) ==
    \E j, l \in (PrevGroup(cb, i) + 1)..(i - 1) :
        j < l /\ IsOpt(decorators[cb][j]) /\ IsForeign(decorators[cb][l])

\* C13: a group decorator of one of the four constraint classes that drains
\* (in order, with valid constructor arguments) a pending option declared with
\* required=True raises the TypeError "'required' attribute is not allowed"
\* for that group class at definition time, and the command is never built.
C13_RequiredForbidden ==
    \A i \in 1..Len(decorators["cli"]) :
        LET d == decorators["cli"][i]
        IN  (/\ IsGroup(d)
             /\ d.cls \in ConstraintClasses
             /\ ~d.oops
             /\ RequiredPendingAt("cli", i)
             /\ ~ForeignWhilePending("cli", i)) =>
                /\ i = Len(decorators["cli"])
                /\ stage["cli"] = "failed"
                /\ raised["cli"].type = "TypeError"
                /\ raised["cli"].msg = "'required' attribute is not allowed"
                /\ raised["cli"].cls = d.cls

\* C13 witness: @optgroup(cls=RequiredAllOptionGroup) over
\* @optgroup.option('--foo', required=True) and @optgroup.option('--bar') has
\* raised.
C13_Witness ==
    /\ Len(decorators["cli"]) = 3
    /\ decorators["cli"][1] = Decorator("optgroup.option", "--bar", "", "", FALSE)
    /\ decorators["cli"][2] = Decorator("optgroup.option", "--foo", "", "", TRUE)
    /\ IsGroup(decorators["cli"][3])
    /\ decorators["cli"][3].cls = "RequiredAllOptionGroup"
    /\ stage["cli"] = "failed"
    /\ raised["cli"].msg = "'required' attribute is not allowed"

IsGroupOption(d) == d.op = "group.option"

\* On cb, i and k are .option decorators of the same held group, k the next
\* one after i, and a foreign option was registered between them.
ForeignBetweenHeld(cb, i, k) ==
    /\ i < k
    /\ IsGroupOption(decorators[cb][i])
    /\ IsGroupOption(decorators[cb][k])
    /\ decorators[cb][i].name = decorators[cb][k].name
    /\ \A j \in (i + 1)..(k - 1) :
           ~(IsGroupOption(decorators[cb][j])
             /\ decorators[cb][j].name = decorators[cb][i].name)
    /\ \E j \in (i + 1)..(k - 1) : IsForeign(decorators[cb][j])

Alone0 ==
    [params |-> <<>>, has_stack |-> FALSE, stack |-> <<>>, markers |-> <<>>,
     groups |-> <<>>, raised |-> NoError, stage |-> "decorating"]

\* One decorator applied to a callback decorated on its own (lines 99-125 and
\* 139-149 with every dictionary reduced to this callback's entry).
AloneStep(L, d, cb) ==
    LET ps  == filter_not_attached(L.params)
        ph  == Param("not_attached", d.decl, 0, FALSE)
        ps1 == SelectSeq(L.params, LAMBDA opt : opt \notin Range(L.markers))
        items == attach_order(L.stack)
        k   == FirstRejected(d.cls, items)
        gid == Len(L.groups) + 1
        attached == SubSeq(items, 1, k - 1)
        new_params == [i \in 1..Len(attached) |->
                          Param("grouped", attached[i].param_decls, gid,
                                attached[i].attrs.required)]
        option_group == [name |-> d.name, cls |-> d.cls, callback |-> cb,
                         options |-> [i \in 1..Len(attached) |-> attached[i].param_decls]]
        drained == [L EXCEPT !.has_stack = FALSE, !.stack = <<>>, !.markers = <<>>,
                             !.params = ps1]
        failed(M, err) == [M EXCEPT !.raised = err, !.stage = "failed"]
    IN  IF IsForeign(d)
        THEN [L EXCEPT !.params = Append(@, Param("option", d.decl, 0, FALSE))]
        ELSE IF IsOpt(d)
        THEN IF check_mixing_decorators(L.stack, ps)
             THEN failed([L EXCEPT !.has_stack = TRUE],
                         MixingDecoratorsError(wrong_option(ps), cb))
             ELSE [L EXCEPT !.params = Append(@, ph),
                            !.markers = Append(@, ph),
                            !.has_stack = TRUE,
                            !.stack = Append(@, OptionStackItem(d.decl,
                                                 [required |-> d.required], Len(ps)))]
        ELSE IF ~IsOptionGroupClass(d.cls)
        THEN failed(L, [type |-> "TypeError",
                        msg |-> "'cls' must be a subclass of 'OptionGroup' class.",
                        decls |-> <<>>, command |-> cb])
        ELSE IF ~L.has_stack
        THEN L
        ELSE IF check_mixing_decorators(L.stack, filter_not_attached(ps1))
        THEN failed(drained, MixingDecoratorsError(wrong_option(filter_not_attached(ps1)), cb))
        ELSE IF d.oops
        THEN failed(drained, [type |-> "TypeError",
                              msg |-> "constructor got an unexpected keyword argument",
                              decls |-> <<>>, command |-> cb])
        ELSE LET built == [drained EXCEPT !.groups = Append(@, option_group),
                                          !.params = ps1 \o new_params]
             IN  IF k <= Len(items)
                 THEN failed(built, ForbiddenAttrError(d.cls, items[k], cb))
                 ELSE built

RECURSIVE Alone(_, _)
\* The decorators `log` applied in order to callback cb decorated on its own.
Alone(log, cb) ==
    IF log = <<>> THEN Alone0
    ELSE AloneStep(Alone(SubSeq(log, 1, Len(log) - 1), cb), Last(log), cb)

\* The rank of group gid among the groups of its callback (0 for no group).
LocalRank(gid) ==
    IF gid = 0 THEN 0
    ELSE Cardinality({i \in 1..gid : groups[i].callback = groups[gid].callback})

\* The callback's parameters, each grouped option carrying the rank of its
\* group among the callback's groups.
LocalParams(cb) ==
    [i \in 1..Len(params[cb]) |->
        [params[cb][i] EXCEPT !.group = LocalRank(params[cb][i].group)]]

\* The state of cb its decorators have left, as Alone records it.
Local(cb) ==
    [params |-> LocalParams(cb),
     has_stack |-> cb \in DOMAIN decorating_state,
     stack |-> DictGet(decorating_state, cb),
     markers |-> DictGet(not_attached_options, cb),
     groups |-> GroupsOf(cb),
     raised |-> raised[cb],
     stage |-> IF stage[cb] = "command" THEN "decorating" ELSE stage[cb]]

\* C15: the pending stack, the placeholders, the parameters, the groups and
\* the error of a callback are those its own decorators produce when the
\* callback is decorated on its own, whatever decorators were applied to the
\* other callback and however the two sequences interleaved.
C15_IsolatedPerCallback ==
    \A cb \in Callbacks : Local(cb) = Alone(decorators[cb], cb)

\* C15 witness: the subcommand's pending options were drained into a group
\* while an option of the top-level command was still pending.
C15_Witness ==
    /\ Orphans("cli") # <<>>
    /\ "cli" \in DOMAIN decorating_state
    /\ "command" \notin DOMAIN decorating_state
    /\ Len(GroupsOf("command")) = 1
    /\ Len(GroupsOf("command")[1].options) = 2

\* On cb, j is an optgroup.option decorator, i a later decorator, and the
\* decorators between them are foreign options, at least one.
ForeignAfterLastPending(cb, j, i) ==
    /\ j + 1 < i
    /\ IsOpt(decorators[cb][j])
    /\ \A m \in (j + 1)..(i - 1) : IsForeign(decorators[cb][m])

\* The declarations of the grouped options among the callback's parameters.
GroupedDeclsOf(cb) ==
    {params[cb][x].decls : x \in {y \in 1..Len(params[cb]) : params[cb][y].kind = "grouped"}}

\* C16: when foreign options are registered after the last pending
\* optgroup.option decorator and before the group decorator, no optgroup.option
\* decorator has raised when the group decorator fires, and the group decorator
\* raises the mis-ordering TypeError naming the foreign option registered last,
\* with no group constructed for it and none of the pending options attached.
C16_GroupDecoratorDetectsMixing ==
    \A cb \in Callbacks : \A j \in 1..Len(decorators[cb]) :
        /\ ForeignAfterLastPending(cb, j, Len(decorators[cb]) + 1) =>
               /\ raised[cb] = NoError
               /\ stage[cb] # "failed"
        /\ \A i \in 1..Len(decorators[cb]) :
               (ForeignAfterLastPending(cb, j, i) /\ IsGroup(decorators[cb][i])) =>
                   /\ RaisedMixingAt(cb, i)
                   /\ raised[cb].decls = <<decorators[cb][i - 1].decl>>
                   /\ Len(GroupsOf(cb)) = Len(DrainingGroups(cb)) - 1
                   /\ Range(PendingAt(cb, i)) \cap GroupedDeclsOf(cb) = {}

\* C16 witness: @optgroup.group over @click.option('--hello') over two
\* optgroup.option decorators has raised on the top-level command.
C16_Witness ==
    /\ Len(decorators["cli"]) = 4
    /\ IsOpt(decorators["cli"][1])
    /\ ForeignAfterLastPending("cli", 2, 4)
    /\ IsGroup(decorators["cli"][4])
    /\ RaisedMixingAt("cli", 4)
    /\ raised["cli"].decls = <<decorators["cli"][3].decl>>

\* A foreign option was registered on cb while the options pending at
\* position i were pending.
ForeignWhilePendingAt(cb, i) ==
    \E l \in (PrevGroup(cb, i) + 1)..(i - 1) :
        IsForeign(decorators[cb][l]) /\ PendingAt(cb, l) # <<>>

\* C17: the mis-ordering error is raised on a callback only if a foreign
\* option was registered on it while options now pending were already pending;
\* foreign options registered before the first pending option of a group, or
\* after the decorator of the previous group fired, never cause it.
C17_NoFalseMixingError ==
    \A cb \in Callbacks :
        IsMixingError(raised[cb]) =>
            ForeignWhilePendingAt(cb, Len(decorators[cb]))

\* C17 witness: the subcommand took a foreign option before its first pending
\* option without error, and a second foreign option between two pending
\* options made the second optgroup.option decorator raise.
C17_Witness ==
    /\ Len(decorators["command"]) = 4
    /\ IsForeign(decorators["command"][1])
    /\ IsOpt(decorators["command"][2])
    /\ IsForeign(decorators["command"][3])
    /\ IsOpt(decorators["command"][4])
    /\ IsMixingError(raised["command"])
    /\ raised["command"].decls = <<decorators["command"][3].decl>>

\* On cb, a foreign option was registered at position l while options were
\* pending, and i is the first optgroup.option or group decorator after it.
FirstAfterForeign(cb, l, i) ==
    /\ l < i
    /\ IsForeign(decorators[cb][l])
    /\ PendingAt(cb, l) # <<>>
    /\ \A m \in (l + 1)..(i - 1) : IsForeign(decorators[cb][m])
    /\ (IsOpt(decorators[cb][i]) \/ IsGroup(decorators[cb][i]))

\* C18: the first optgroup.option or group decorator that fires after a
\* foreign option was registered while options were pending raises the
\* mis-ordering error, naming the non-placeholder parameter registered last
\* before it (the foreign option registered just before the decorator).
C18_EarliestDetection ==
    \A cb \in Callbacks : \A l, i \in 1..Len(decorators[cb]) :
        FirstAfterForeign(cb, l, i) =>
            /\ RaisedMixingAt(cb, i)
            /\ raised[cb].decls = <<decorators[cb][i - 1].decl>>
            /\ raised[cb].decls = <<Last(filter_not_attached(params[cb])).decls>>

\* C18 witness: on the top-level command two foreign options followed a
\* pending option, and the next optgroup.option decorator raised naming the
\* second of them.
C18_Witness ==
    /\ Len(decorators["cli"]) = 4
    /\ IsOpt(decorators["cli"][1])
    /\ FirstAfterForeign("cli", 2, 4)
    /\ IsOpt(decorators["cli"][4])
    /\ RaisedMixingAt("cli", 4)
    /\ raised["cli"].decls = <<decorators["cli"][3].decl>>

\* The position of the group decorator that drains the optgroup.option
\* decorator at position j of cb: the first group decorator after it.
DrainerOf(cb, j) ==
    LET s == {i \in (j + 1)..Len(decorators[cb]) : IsGroup(decorators[cb][i])}
    IN  CHOOSE i \in s : \A l \in s : i <= l

\* The rank of that group decorator among the draining group decorators of cb:
\* the group object it constructs.
DrainerRank(cb, j) ==
    Cardinality({m \in 1..DrainerOf(cb, j) :
                    IsGroup(decorators[cb][m]) /\ PendingAt(cb, m) # <<>>})

\* The options the group of the given rank has among the parameters ps.
OptionsOfRank(ps, rank) ==
    LET sel == SelectSeq(ps, LAMBDA opt : opt.kind = "grouped" /\ opt.group = rank)
    IN  [i \in 1..Len(sel) |-> sel[i].decls]

RECURSIVE Imperative(_, _)
\* The first n decorators of cb taken the imperative way: a foreign option is
\* registered as it is, every optgroup.option decorator is a direct .option
\* call on the group object of the group decorator that drains it, and a group
\* decorator registers nothing.
Imperative(cb, n) ==
    IF n = 0 THEN [params |-> <<>>, raised |-> NoError]
    ELSE LET L    == Imperative(cb, n - 1)
             d    == decorators[cb][n]
             rank == DrainerRank(cb, n)
         IN  IF L.raised # NoError THEN L
             ELSE IF IsForeign(d)
             THEN [L EXCEPT !.params = Append(@, Param("option", d.decl, 0, FALSE))]
             ELSE IF IsOpt(d)
             THEN IF group_check_mixing_decorators(OptionsOfRank(L.params, rank), L.params)
                  THEN [L EXCEPT !.raised = MixingDecoratorsError(Last(L.params), cb)]
                  ELSE [L EXCEPT !.params =
                               Append(@, Param("grouped", d.decl, rank, d.required))]
             ELSE L

\* The parameters of the command made from cb, each grouped option carrying
\* the rank of its group among the callback's groups.
LocalCommandParams(cb) ==
    [i \in 1..Len(command_params[cb]) |->
        [command_params[cb][i] EXCEPT !.group = LocalRank(command_params[cb][i].group)]]

\* The declarative path accepted the decorators of cb: the command was made
\* and every optgroup.option decorator was drained by a group decorator.
Accepted(cb) == stage[cb] = "command" /\ Orphans(cb) = <<>>

\* C19: for every decorator sequence the declarative path accepts, the
\* imperative path, with each optgroup.option decorator replaced at the same
\* position by a direct .option call on the group of the group decorator that
\* drains it, raises nothing and gives the command the same parameters: the
\* same declarations in the same order, each in the same group.
C19_DeclarativeRefinesImperative ==
    \A cb \in Callbacks :
        Accepted(cb) =>
            LET imp == Imperative(cb, Len(decorators[cb]))
            IN  /\ imp.raised = NoError
                /\ LocalCommandParams(cb) = Reverse(imp.params)

\* C19 witness: the top-level command was made from a group of two options
\* declared above a foreign option.
C19_Witness ==
    /\ Accepted("cli")
    /\ Len(decorators["cli"]) = 4
    /\ IsForeign(decorators["cli"][1])
    /\ IsOpt(decorators["cli"][2])
    /\ IsOpt(decorators["cli"][3])
    /\ IsGroup(decorators["cli"][4])
    /\ Len(command_params["cli"]) = 3

\* A group decorator has fired on cb with options pending, and no
\* optgroup.option decorator has fired on cb since.
Drained(cb) ==
    \E i \in 1..Len(decorators[cb]) :
        /\ IsGroup(decorators[cb][i])
        /\ IsOptionGroupClass(decorators[cb][i].cls)
        /\ PendingAt(cb, i) # <<>>
        /\ \A m \in (i + 1)..Len(decorators[cb]) : ~IsOpt(decorators[cb][m])

\* The group decorator at the end of the decorators of cb raised.
GroupDecoratorRaised(cb) ==
    /\ decorators[cb] # <<>>
    /\ IsGroup(Last(decorators[cb]))
    /\ stage[cb] = "failed"

\* C20: once a group decorator has fired on a callback with options pending,
\* whether it returned or raised (mis-ordering, constructor error, rejected
\* option), the callback has no entry in _decorating_state, none in
\* _not_attached_options and no placeholder among its parameters; and a
\* command all of whose optgroup.option decorators were drained by a group
\* decorator does not raise the 'Missing option group decorator' error.
C20_DrainedCompletely ==
    /\ Drained("cli") =>
           /\ "cli" \notin DOMAIN decorating_state
           /\ "cli" \notin DOMAIN not_attached_options
           /\ filter_not_attached(params["cli"]) = params["cli"]
    /\ (Accepted("cli") /\ result.command = "cli") =>
           ~IsMissingGroupError(result.error)

\* C20 witness: a group decorator attached the first of two pending options,
\* rejected the second and raised.
C20_Witness ==
    /\ Drained("cli")
    /\ GroupDecoratorRaised("cli")
    /\ Len(PendingAt("cli", Len(decorators["cli"]))) = 2
    /\ raised["cli"].msg = "'required' attribute is not allowed"
    /\ Len(params["cli"]) = 1

\* This step is an optgroup.option decorator firing on cb and raising the
\* mis-ordering error.
OptionRaisesStep(cb) ==
    /\ stage[cb] = "decorating"
    /\ Len(decorators'[cb]) = Len(decorators[cb]) + 1
    /\ IsOpt(Last(decorators'[cb]))
    /\ IsMixingError(raised'[cb])

\* C21: an optgroup.option decorator that raises the mis-ordering error leaves
\* the registration state as it was: the pending stacks, the placeholder
\* lists and the parameter lists of every callback are unchanged (no
\* placeholder is registered, no pending entry is appended).
C21_RaisingOptionChangesNothing ==
    [][\A cb \in Callbacks :
           OptionRaisesStep(cb) =>
               /\ decorating_state' = decorating_state
               /\ not_attached_options' = not_attached_options
               /\ params' = params
               /\ groups' = groups]_vars

\* C21 witness: an optgroup.option decorator raised on the subcommand, which
\* keeps its one pending entry, its one placeholder and its two parameters.
C21_Witness ==
    /\ Len(decorators["command"]) = 3
    /\ IsOpt(decorators["command"][3])
    /\ RaisedMixingAt("command", 3)
    /\ Len(DictGet(decorating_state, "command")) = 1
    /\ Len(DictGet(not_attached_options, "command")) = 1
    /\ Len(params["command"]) = 2

\* The number of placeholders among the parameters of cb.
Placeholders(cb) ==
    Len(params[cb]) - Len(filter_not_attached(params[cb]))

\* C22: after every decorator, returning or raising, each callback has as many
\* entries in its pending stack as in its placeholder list and as
\* placeholders among its parameters.
C22_PendingCountsAgree ==
    \A cb \in Callbacks :
        /\ Len(DictGet(decorating_state, cb)) = Len(DictGet(not_attached_options, cb))
        /\ Len(DictGet(not_attached_options, cb)) = Placeholders(cb)

\* C22 witness: an optgroup.option decorator raised on a callback holding a
\* foreign option and one pending option: one stack entry, one placeholder
\* listed, one placeholder among the two parameters.
C22_Witness ==
    /\ RaisedMixingAt("cli", 3)
    /\ IsOpt(decorators["cli"][3])
    /\ Len(DictGet(decorating_state, "cli")) = 1
    /\ Placeholders("cli") = 1
    /\ Len(params["cli"]) = 2

\* The group decorator at the end of the decorators of cb constructed its
\* group and raised on an option the group rejected.
AttachRaised(cb) ==
    /\ GroupDecoratorRaised(cb)
    /\ raised[cb].msg = "'required' attribute is not allowed"

\* C23: a callback that has a key in _decorating_state has a non-empty pending
\* stack there; the group decorator constructs a group only when it fires with
\* an option pending; and every group built by a group decorator that did not
\* raise has at least one option.
C23_PendingStackNonEmpty ==
    /\ \A cb \in DOMAIN decorating_state : decorating_state[cb] # <<>>
    /\ \A cb \in Callbacks :
           /\ Len(GroupsOf(cb)) <= Len(DrainingGroups(cb))
           /\ \A n \in 1..Len(GroupsOf(cb)) :
                  (n < Len(GroupsOf(cb)) \/ ~AttachRaised(cb)) =>
                      GroupsOf(cb)[n].options # <<>>

\* C23 witness: a group decorator built a group of one option, and an
\* optgroup.option decorator fired after it gave the callback a key again.
C23_Witness ==
    /\ Len(decorators["cli"]) = 3
    /\ IsGroup(decorators["cli"][2])
    /\ Len(GroupsOf("cli")) = 1
    /\ Len(GroupsOf("cli")[1].options) = 1
    /\ "cli" \in DOMAIN decorating_state
    /\ Len(decorating_state["cli"]) = 1

\* The position of the first of the options now pending on cb: the first
\* optgroup.option decorator no group decorator has fired after (a group
\* decorator given a class that is no OptionGroup never fires).
FirstPending(cb) ==
    LET s == {j \in 1..Len(decorators[cb]) :
                  /\ IsOpt(decorators[cb][j])
                  /\ \A m \in (j + 1)..Len(decorators[cb]) :
                         ~(IsGroup(decorators[cb][m])
                           /\ IsOptionGroupClass(decorators[cb][m].cls))}
    IN  CHOOSE j \in s : \A l \in s : j <= l

\* The number of non-placeholder parameters cb had when the first of its
\* pending options was registered: the foreign options registered and the
\* grouped options attached before it.
CountAtFirstPending(cb) ==
    Cardinality({m \in 1..(FirstPending(cb) - 1) :
                    IsForeign(decorators[cb][m]) \/ IsOpt(decorators[cb][m])})

\* C24: all the entries of a callback's pending stack carry the same
\* param_count, the number of non-placeholder parameters the callback had
\* when the first of the pending options was registered.
C24_OneRecordedCount ==
    \A cb \in DOMAIN decorating_state :
        \A n \in 1..Len(decorating_state[cb]) :
            decorating_state[cb][n].param_count = CountAtFirstPending(cb)

\* C24 witness: the subcommand has two pending options registered after a
\* foreign option, both recording one parameter.
C24_Witness ==
    /\ "command" \in DOMAIN decorating_state
    /\ Len(decorating_state["command"]) = 2
    /\ decorating_state["command"][1].param_count = 1
    /\ decorating_state["command"][2].param_count = 1
    /\ IsForeign(decorators["command"][1])

=============================================================================
